---------------------------- MODULE Spec2Model ----------------------------
(***************************************************************************)
(* Model of tenacitas::lib::tester::alg::test (src/alg/tester.h): the      *)
(* constructor that resolves the mode from the command line, run<T>(name)  *)
(* and exec<T>(name), together with what they write to std::cout and       *)
(* std::cerr.                                                              *)
(***************************************************************************)
EXTENDS Naturals, Sequences, FiniteSets, TLC

VARIABLES
  pc,               \* "start" | "constructed" | "terminated" (std::terminate)
  m_argv,           \* the arguments of the process
  m_execute_tests,  \* tester.h:251
  m_print_desc,     \* tester.h:254
  m_tests_to_exec,  \* tester.h:263
  cout,             \* standard output: [lines, part]
  cerr,             \* diagnostic stream: [lines, part]
  trace,            \* history of calls, throws and completed lines, in order
  nruns             \* number of run calls made so far

vars == <<pc, m_argv, m_execute_tests, m_print_desc, m_tests_to_exec,
          cout, cerr, trace, nruns>>

(***************************************************************************)
(* Bounds                                                                  *)
(***************************************************************************)
MaxRuns == 3

MaxSel == 2

Names == {"A", "B"}

\* what() of the exceptions that derive from std::exception
Msgs == {"boom"}

\* what t_test_class::desc() returns
Descs == {"d1"}

RECURSIVE SeqsUpTo(_, _)
SeqsUpTo(S, n) ==
  IF n = 0 THEN {<<>>}
  ELSE LET shorter == SeqsUpTo(S, n - 1)
       IN shorter \cup {Append(s, x) : s \in shorter, x \in S}

Range(s) == {s[i] : i \in 1..Len(s)}

Prefix(s, k) == [i \in 1..k |-> s[i]]

(***************************************************************************)
(* The command line, as the options object sees it: the boolean flags      *)
(* --exec and --desc, and the optional set-valued --exec { n1 n2 ... }.    *)
(***************************************************************************)
Absent == [has |-> FALSE, val |-> <<>>]

Argvs ==
  [pgm : {"tst"}, exec_bool : BOOLEAN, desc_bool : BOOLEAN,
   exec_set : {Absent} \cup [has : {TRUE}, val : SeqsUpTo(Names, MaxSel)]]

\* the names the constructor may declare mandatory
Mandatories == {{}, {"exec"}, {"cfg"}}

\* where, in the constructor's guarded block, a collaborator throws
Faults ==
  [at : {"none", "parse", "get_bool_exec", "get_bool_desc", "get_set_param"},
   k : {0}]
  \cup [at : {"insert"}, k : 0..(MaxSel - 1)]

(***************************************************************************)
(* A test class: what its default constructor, its static desc() and its   *)
(* operator() do. "std" throws a std::exception whose what() is `what`,    *)
(* "other" throws a value that does not derive from std::exception.        *)
(* operator() is called only on an instance whose constructor and desc()    *)
(* returned (tester.h:196-199), so what it would do is left open ("true")  *)
(* for the classes where one of them throws.                               *)
(***************************************************************************)
TestClasses ==
  {t \in [ctor : {"ok", "std", "other"}, desc : {"ok", "std", "other"},
          invoke : {"true", "false", "std", "other"}, what : Msgs, text : Descs] :
     (t.ctor # "ok" \/ t.desc # "ok") => t.invoke = "true"}

(***************************************************************************)
(* Output streams. A stream is the lines completed so far and the text     *)
(* written after the last line break.                                      *)
(***************************************************************************)
EmptyStream == [lines |-> <<>>, part |-> ""]

Put(s, txt) == [s EXCEPT !.part = @ \o txt]

Nl(s) == [lines |-> Append(s.lines, s.part), part |-> ""]

Ev(e, n, v) == [ev |-> e, name |-> n, val |-> v]

EmptyIO == [cout |-> EmptyStream, cerr |-> EmptyStream, trace |-> <<>>]

Log(io, e, n, v) == [io EXCEPT !.trace = Append(@, Ev(e, n, v))]

CoutPut(io, txt) == [io EXCEPT !.cout = Put(@, txt)]

CoutNl(io) ==
  [io EXCEPT !.cout = Nl(@), !.trace = Append(@, Ev("cout", "", io.cout.part))]

CerrPut(io, txt) == [io EXCEPT !.cerr = Put(@, txt)]

CerrNl(io) ==
  [io EXCEPT !.cerr = Nl(@), !.trace = Append(@, Ev("cerr", "", io.cerr.part))]

RECURSIVE CoutLines(_, _)
CoutLines(io, ls) ==
  IF ls = <<>> THEN io
  ELSE CoutLines(CoutNl(CoutPut(io, Head(ls))), Tail(ls))


(***************************************************************************)
(* The options collaborator, as the constructor consumes it.               *)
(***************************************************************************)
Present(argv) ==
  {n \in {"exec"} : argv.exec_bool \/ argv.exec_set.has}
  \cup {n \in {"desc"} : argv.desc_bool}

\* options::parse fails when a mandatory option is absent or the syntax is
\* invalid; the result is "ok" or the what() of the exception it throws
parse(argv, p_mandatory, fault) ==
  IF ~(p_mandatory \subseteq Present(argv)) THEN "mandatory option missing"
  ELSE IF fault.at = "parse" THEN "syntax error"
  ELSE "ok"

get_bool_param(argv, n) ==
  IF n = "exec" THEN argv.exec_bool
  ELSE IF n = "desc" THEN argv.desc_bool
  ELSE FALSE

get_set_param(argv, n) == IF n = "exec" THEN argv.exec_set ELSE Absent

\* what() of the exception a collaborator throws in the constructor
What(at) == IF at = "insert" THEN "std::bad_alloc" ELSE "options error"

(***************************************************************************)
(* test::print_mini_howto                                                  *)
(***************************************************************************)
HowtoLines(pgm) ==
  << "Syntax:",
     "\t'" \o pgm \o " --desc' will display a description of the test",
     "\t'" \o pgm \o " --exec' will execute the all the tests",
     "\t'" \o pgm \o " --exec { <test-name-1> <test-name-2> ...}' will execute tests defined between '{' and '}'",
     "\t'" \o pgm \o "' displays this message",
     "",
     "For the programmers: ",
     "\t1 - Programmers should use 'std::cerr' to print messages",
     "\t2 - If do not want your 'std::cerr' messages to be displayed, use",
     "\t'" \o pgm \o " --exec 2> /dev/null' to execute the tests",
     "",
     "Output:",
     "\tIf the test passes, the message \"SUCCESS for <name>\" will be printed",
     "\tIf the test does not pass, the message \"FAIL for <name>\" will be printed",
     "\tIf an error occurr while executing the test , the message \"ERROR for <name> <desc>\" will be printed",
     "\tIf an exception occurrs, the message \"EXCEPTION <description>\" will be printed" >>

print_mini_howto(io, pgm) == CoutLines(io, HowtoLines(pgm))

(***************************************************************************)
(* test::test. The object is the record of its members and the streams.    *)
(***************************************************************************)
Object(e, d, s, io) ==
  [m_execute_tests |-> e, m_print_desc |-> d, m_tests_to_exec |-> s, io |-> io]

\* the line both catch handlers of the class print (tester.h:124, 179)
ExceptionLine(what) == "EXCEPTION '" \o what \o "'"

\* a collaborator throws a std::exception at point `at` of the guarded block
Throw(self, at, what) == [self EXCEPT !.io = Log(@, "throw", at, what)]

Thrown(self) ==
  /\ self.io.trace # <<>>
  /\ self.io.trace[Len(self.io.trace)].ev = "throw"

\* catch (std::exception &) of the constructor: the members stay as the
\* guarded block left them
ctor_catch(self) ==
  LET ex == self.io.trace[Len(self.io.trace)]
  IN [self EXCEPT !.io = CoutNl(CoutPut(@, ExceptionLine(ex.val)))]

\* mutant: the test of m_print_desc not negated
ctor_howto_typo(self, pgm) ==
  IF (~self.m_execute_tests) /\ self.m_print_desc
  THEN [self EXCEPT !.io = print_mini_howto(@, pgm)]
  ELSE self

\* tester.h:120-122
ctor_howto(self, pgm) ==
  IF (~self.m_execute_tests) /\ (~self.m_print_desc)
  THEN [self EXCEPT !.io = print_mini_howto(@, pgm)]
  ELSE self

\* tester.h:110-118, the set-valued branch. std::set's range insert adds the
\* elements one by one: when the allocation for element k+1 fails, the first
\* k are in the set and m_execute_tests is already true.
ctor_set(self, argv, fault) ==
  LET maybe == get_set_param(argv, "exec")
  IN IF ~maybe.has THEN self
     ELSE LET on == [self EXCEPT !.m_execute_tests = TRUE]
          IN IF fault.at = "insert" /\ fault.k < Len(maybe.val)
             THEN Throw([on EXCEPT !.m_tests_to_exec =
                                      Range(Prefix(maybe.val, fault.k))],
                        "insert", What("insert"))
             ELSE [on EXCEPT !.m_tests_to_exec = Range(maybe.val)]

\* mutant: --desc looked up before --exec
ctor_resolve_desc_first(self, argv, fault) ==
  IF fault.at = "get_bool_desc"
  THEN Throw(self, fault.at, What(fault.at))
  ELSE IF get_bool_param(argv, "desc")
  THEN [self EXCEPT !.m_print_desc = TRUE]
  ELSE IF fault.at = "get_bool_exec"
  THEN Throw(self, fault.at, What(fault.at))
  ELSE IF get_bool_param(argv, "exec")
  THEN [self EXCEPT !.m_execute_tests = TRUE]
  ELSE IF fault.at = "get_set_param"
  THEN Throw(self, fault.at, What(fault.at))
  ELSE ctor_set(self, argv, fault)

\* mutant: the three lookups made one after the other, without else
ctor_resolve_no_else(self, argv, fault) ==
  LET a == IF get_bool_param(argv, "exec")
           THEN [self EXCEPT !.m_execute_tests = TRUE] ELSE self
      b == IF get_bool_param(argv, "desc")
           THEN [a EXCEPT !.m_print_desc = TRUE] ELSE a
  IN IF fault.at \in {"get_bool_exec", "get_bool_desc", "get_set_param"}
     THEN Throw(self, fault.at, What(fault.at))
     ELSE ctor_set(b, argv, fault)

\* tester.h:105-118
ctor_resolve(self, argv, fault) ==
  IF fault.at = "get_bool_exec"
  THEN Throw(self, fault.at, What(fault.at))
  ELSE IF get_bool_param(argv, "exec")
  THEN [self EXCEPT !.m_execute_tests = TRUE]
  ELSE IF fault.at = "get_bool_desc"
  THEN Throw(self, fault.at, What(fault.at))
  ELSE IF get_bool_param(argv, "desc")
  THEN [self EXCEPT !.m_print_desc = TRUE]
  ELSE IF fault.at = "get_set_param"
  THEN Throw(self, fault.at, What(fault.at))
  ELSE ctor_set(self, argv, fault)

\* mutant: the mode is resolved before the arguments are parsed
ctor_parse_last(argv, p_mandatory, fault) ==
  LET self == Object(FALSE, FALSE, {}, EmptyIO)
      after == ctor_resolve(self, argv, fault)
      parsed == parse(argv, p_mandatory, fault)
  IN IF Thrown(after) THEN ctor_catch(after)
     ELSE IF parsed # "ok" THEN ctor_catch(Throw(after, "parse", parsed))
     ELSE ctor_howto(after, argv.pgm)

\* tester.h:95-127
ctor(argv, p_mandatory, fault) ==
  LET self == Object(FALSE, FALSE, {}, EmptyIO)
      parsed == parse(argv, p_mandatory, fault)
  IN IF parsed # "ok"
     THEN ctor_catch(Throw(self, "parse", parsed))
     ELSE LET after == ctor_resolve(self, argv, fault)
          IN IF Thrown(after) THEN ctor_catch(after)
             ELSE ctor_howto(after, argv.pgm)

(***************************************************************************)
(* test::exec. The result is the object and the exception that leaves the  *)
(* function: "none", or "other" for a value its catch (exception &) does   *)
(* not match. Operands of << are written left to right (C++17), so the     *)
(* text before a call that throws is already in the stream.                *)
(***************************************************************************)
Result(self, exc) == [self |-> self, exc |-> exc]

SuccessLine(name) == name \o " SUCCESS"

FailLine(name) == name \o " FAIL"

ErrorLine(name, what) == "ERROR for " \o name \o " '" \o what \o "'"

OpenBanner(name) == "############ -> " \o name \o " - "

CloseBanner(name) == "############ <- " \o name

\* tester.h:207
exec_close(io, name) == CerrNl(CerrPut(io, CloseBanner(name)))

\* mutant: the error is reported on the diagnostic stream
exec_catch_cerr(io, name, what) == CerrNl(CerrPut(io, ErrorLine(name, what)))

\* tester.h:204-206
exec_catch(io, name, what) == CoutNl(CoutPut(io, ErrorLine(name, what)))

\* mutant: the result is kept across executions (a failure printed before
\* makes every later test fail)
exec_invoke_sticky(io, name, t) ==
  LET called == Log(io, "invoke", name, t.invoke)
      failed == \E k \in 1..Len(io.cout.lines), n \in Names :
                  io.cout.lines[k] = FailLine(n)
  IN IF t.invoke = "other" THEN [io |-> called, exc |-> "other"]
     ELSE IF t.invoke = "std"
     THEN [io |-> exec_catch(called, name, t.what), exc |-> "none"]
     ELSE [io |-> CoutNl(CoutPut(called, IF t.invoke = "true" /\ ~failed
                                          THEN SuccessLine(name)
                                          ELSE FailLine(name))),
           exc |-> "none"]

\* tester.h:199-203
exec_invoke(io, name, t) ==
  LET called == Log(io, "invoke", name, t.invoke)
  IN IF t.invoke = "other" THEN [io |-> called, exc |-> "other"]
     ELSE IF t.invoke = "std"
     THEN [io |-> exec_catch(called, name, t.what), exc |-> "none"]
     ELSE [io |-> CoutNl(CoutPut(called, IF t.invoke = "true"
                                          THEN SuccessLine(name)
                                          ELSE FailLine(name))),
           exc |-> "none"]

\* tester.h:197-198
exec_banner(io, name, t) ==
  LET begun == Log(CerrPut(CerrNl(io), OpenBanner(name)), "desc", name, t.desc)
  IN IF t.desc = "other" THEN [io |-> begun, exc |-> "other"]
     ELSE IF t.desc = "std"
     THEN [io |-> exec_catch(begun, name, t.what), exc |-> "none"]
     ELSE exec_invoke(CerrNl(CerrPut(begun, t.text)), name, t)

\* mutant: the closing banner written inside the try block
exec_close_in_try(self, name, t) ==
  LET made == Log(self.io, "ctor", name, t.ctor)
      body == IF t.ctor = "other" THEN [io |-> made, exc |-> "other"]
              ELSE IF t.ctor = "std"
              THEN [io |-> exec_catch(made, name, t.what), exc |-> "none"]
              ELSE exec_banner(made, name, t)
      caught == "std" \in {t.ctor, t.desc, t.invoke}
  IN IF body.exc = "other"
     THEN Result([self EXCEPT !.io = body.io], "other")
     ELSE IF caught THEN Result([self EXCEPT !.io = body.io], "none")
     ELSE Result([self EXCEPT !.io = exec_close(body.io, name)], "none")

\* tester.h:192-208
exec(self, name, t) ==
  LET made == Log(self.io, "ctor", name, t.ctor)
      body == IF t.ctor = "other" THEN [io |-> made, exc |-> "other"]
              ELSE IF t.ctor = "std"
              THEN [io |-> exec_catch(made, name, t.what), exc |-> "none"]
              ELSE exec_banner(made, name, t)
  IN IF body.exc = "other"
     THEN Result([self EXCEPT !.io = body.io], "other")
     ELSE Result([self EXCEPT !.io = exec_close(body.io, name)], "none")

(***************************************************************************)
(* test::run. The function is noexcept: an exception that its              *)
(* catch (std::exception &) does not match calls std::terminate.           *)
(***************************************************************************)
\* mutant: the names to execute are not looked up at all
selected_always(self, name) == TRUE

\* mutant: the comparison with end() inverted (== for !=)
selected_inverted(self, name) ==
  IF self.m_tests_to_exec # {} THEN name \notin self.m_tests_to_exec ELSE TRUE

\* tester.h:169-176
selected(self, name) ==
  IF self.m_tests_to_exec # {} THEN name \in self.m_tests_to_exec ELSE TRUE

\* mutant: the description is printed without the name of the test
run_describe_unnamed(self, name, t) ==
  LET begun == Log(self.io, "desc", name, t.desc)
  IN IF t.desc = "other" THEN Result([self EXCEPT !.io = begun], "other")
     ELSE IF t.desc = "std" THEN Result([self EXCEPT !.io = begun], "std")
     ELSE Result([self EXCEPT !.io = CoutNl(CoutNl(CoutPut(begun, t.text)))],
                 "none")

\* tester.h:163-166
run_describe(self, name, t) ==
  LET begun == Log(CoutPut(CoutPut(self.io, name), ": "), "desc", name, t.desc)
  IN IF t.desc = "other" THEN Result([self EXCEPT !.io = begun], "other")
     ELSE IF t.desc = "std" THEN Result([self EXCEPT !.io = begun], "std")
     ELSE Result([self EXCEPT !.io = CoutNl(CoutNl(CoutPut(begun, t.text)))],
                 "none")

\* mutant: a test that was executed is taken out of the tests to execute
run_execute_once(self, name, t) ==
  IF selected(self, name)
  THEN LET r == exec(self, name, t)
       IN Result([r.self EXCEPT !.m_tests_to_exec = @ \ {name}], r.exc)
  ELSE Result(self, "none")

\* tester.h:168-177
run_execute(self, name, t) ==
  IF selected(self, name) THEN exec(self, name, t) ELSE Result(self, "none")

\* tester.h:178-181
run_catch(self, what) ==
  [self EXCEPT !.io = CoutNl(CoutPut(@, ExceptionLine(what)))]

\* tester.h:159-182
run(self, name, t) ==
  LET entered == [self EXCEPT !.io = Log(@, "run", name, "")]
      body == IF entered.m_print_desc THEN run_describe(entered, name, t)
              ELSE IF entered.m_execute_tests THEN run_execute(entered, name, t)
              ELSE Result(entered, "none")
      handled == IF body.exc = "std" THEN run_catch(body.self, t.what)
                 ELSE body.self
  IN IF body.exc = "other"
     THEN Result([handled EXCEPT !.io = Log(@, "terminate", name, "")],
                 "terminate")
     ELSE Result([handled EXCEPT !.io = Log(@, "return", name, "")], "none")

(***************************************************************************)
(* The program: main constructs the tester and then calls run once per     *)
(* test (src/tst/main.cpp:40-50).                                          *)
(***************************************************************************)
Self ==
  Object(m_execute_tests, m_print_desc, m_tests_to_exec,
         [cout |-> cout, cerr |-> cerr, trace |-> trace])

Store(self) ==
  /\ m_execute_tests' = self.m_execute_tests
  /\ m_print_desc' = self.m_print_desc
  /\ m_tests_to_exec' = self.m_tests_to_exec
  /\ cout' = self.io.cout
  /\ cerr' = self.io.cerr
  /\ trace' = self.io.trace

Init ==
  /\ pc = "start"
  /\ m_argv \in Argvs
  /\ m_execute_tests = FALSE
  /\ m_print_desc = FALSE
  /\ m_tests_to_exec = {}
  /\ cout = EmptyStream
  /\ cerr = EmptyStream
  /\ trace = <<>>
  /\ nruns = 0

Construct ==
  /\ pc = "start"
  /\ \E p_mandatory \in Mandatories, fault \in Faults :
       Store(ctor(m_argv, p_mandatory, fault))
  /\ pc' = "constructed"
  /\ UNCHANGED <<m_argv, nruns>>

Run ==
  /\ pc = "constructed"
  /\ nruns < MaxRuns
  /\ \E name \in Names, t \in TestClasses :
       LET r == run(Self, name, t)
       IN /\ Store(r.self)
          /\ pc' = IF r.exc = "terminate" THEN "terminated" ELSE "constructed"
  /\ nruns' = nruns + 1
  /\ UNCHANGED m_argv

Next == Construct \/ Run

Spec == Init /\ [][Next]_vars

(***************************************************************************)
(* Reading the history: a run call is the events from its "run" to its     *)
(* "return" or "terminate".                                                *)
(***************************************************************************)
RunIdx == {i \in DOMAIN trace : trace[i].ev = "run"}

EndOf(i) ==
  CHOOSE j \in i..Len(trace) :
    /\ trace[j].ev \in {"return", "terminate"}
    /\ \A k \in i..(j - 1) : trace[k].ev \notin {"return", "terminate"}

Seg(i) == i..EndOf(i)

\* event k belongs to a run call, not to the constructor
InRun(k) == \E i \in RunIdx : i <= k

\* the events of the constructor
CtorEvents == SelectSeq(trace, LAMBDA e : e.ev \in {"throw", "cout"})

Executed(i) == \E j \in Seg(i) : trace[j].ev = "ctor"

Invoked(i) == \E j \in Seg(i) : trace[j].ev = "invoke"

Returned(i) == trace[EndOf(i)].ev = "return"

\* the lines a run call completed on a stream
LinesOf(i, stream) ==
  SelectSeq(SubSeq(trace, i, EndOf(i)), LAMBDA e : e.ev = stream)

IsTerminalLine(l, n) ==
  \/ l = n \o " SUCCESS"
  \/ l = n \o " FAIL"
  \/ \E m \in Msgs : l = "ERROR for " \o n \o " '" \o m \o "'"

IsDescriptionLine(l, n) == \E d \in Descs : l = n \o ": " \o d

TerminalLines(ls) ==
  SelectSeq(ls, LAMBDA l : \E n \in Names : IsTerminalLine(l, n))

DescriptionLines(ls) ==
  SelectSeq(ls, LAMBDA l : \E n \in Names : IsDescriptionLine(l, n))

Calls == SelectSeq(trace, LAMBDA e : e.ev = "run")

Instantiations == SelectSeq(trace, LAMBDA e : e.ev = "ctor")

Constructed == pc # "start"

ExecuteMode == Constructed /\ m_execute_tests /\ ~m_print_desc

ExecuteAll == ExecuteMode /\ m_tests_to_exec = {}

ExecuteSelected == ExecuteMode /\ m_tests_to_exec # {}

DescribeMode == Constructed /\ m_print_desc

Eligible(n) == m_tests_to_exec = {} \/ n \in m_tests_to_exec

(***************************************************************************)
(* C1. In execute mode no failure of a test prevents the later tests:      *)
(* every run call returns to its caller, whatever the test's constructor,  *)
(* desc() or operator() does, and every run call of an eligible test       *)
(* executes it.                                                            *)
(* Violated: a test that throws a value not derived from std::exception    *)
(* passes both catch (std::exception &) handlers and, run being noexcept,  *)
(* ends the process in std::terminate.                                     *)
(***************************************************************************)
C1_FailureContained ==
  ExecuteMode =>
    \A i \in RunIdx :
      /\ Returned(i)
      /\ Eligible(trace[i].name) => Executed(i)

(***************************************************************************)
(* C2. In Execute-All mode every run call executes its test exactly once,  *)
(* in the order of the calls, and standard output holds as many terminal   *)
(* outcome lines (SUCCESS, FAIL, ERROR) as run calls were made.            *)
(* Violated by the same std::terminate as C1: the call was made and the    *)
(* test instantiated, but no outcome line is printed for it.               *)
(***************************************************************************)
C2_ExecuteAllCount ==
  (ExecuteAll /\ m_argv.exec_bool) =>
    /\ Len(Instantiations) = Len(Calls)
    /\ \A k \in 1..Len(Calls) : Instantiations[k].name = Calls[k].name
    /\ Len(TerminalLines(cout.lines)) = nruns

(***************************************************************************)
(* C3. In Execute-Selected mode (selection set S not empty) a run call     *)
(* executes its test if and only if the name is in S: the executed tests   *)
(* are instantiated in the order of their run calls, and a run call whose  *)
(* name is not in S completes no line on either stream and neither         *)
(* instantiates the test nor calls its desc() or operator().               *)
(***************************************************************************)
C3_SelectedOnly ==
  ExecuteSelected =>
    /\ \A i \in RunIdx :
         /\ Executed(i) <=> trace[i].name \in m_tests_to_exec
         /\ trace[i].name \notin m_tests_to_exec =>
              /\ EndOf(i) = i + 1
              /\ Returned(i)
    /\ LET chosen == SelectSeq(Calls, LAMBDA e : e.name \in m_tests_to_exec)
       IN /\ Len(Instantiations) = Len(chosen)
          /\ \A k \in 1..Len(chosen) : Instantiations[k].name = chosen[k].name
    /\ \A i \in RunIdx :
         trace[i].name \notin m_tests_to_exec =>
           \A k \in Seg(i) :
             trace[k].ev \notin {"cout", "cerr", "ctor", "desc", "invoke"}

\* S = {A}, run calls A, B, A: A is executed, B skipped, A executed again
C3_Witness ==
  /\ ExecuteSelected
  /\ m_tests_to_exec = {"A"}
  /\ Len(Calls) = 3
  /\ Calls[1].name = "A" /\ Calls[2].name = "B" /\ Calls[3].name = "A"
  /\ Len(Instantiations) = 2
  /\ TerminalLines(cout.lines) = <<"A SUCCESS", "A FAIL">>

(***************************************************************************)
(* C4 as stated. In describe mode n run calls print exactly n description  *)
(* lines "<name>: <desc()>", in the order of the calls, and no test is     *)
(* instantiated or invoked.                                                *)
(* Violated: when desc() throws a std::exception, run's own handler        *)
(* prints "EXCEPTION '<what>'" after the "<name>: " already written, and   *)
(* the call yields no description line.                                    *)
(***************************************************************************)
C4_OneDescriptionPerCall ==
  DescribeMode =>
    /\ Len(DescriptionLines(cout.lines)) = nruns
    /\ \A k \in 1..Len(DescriptionLines(cout.lines)) :
         IsDescriptionLine(DescriptionLines(cout.lines)[k], Calls[k].name)
    /\ \A k \in DOMAIN trace : trace[k].ev \notin {"ctor", "invoke", "cerr"}
    /\ TerminalLines(cout.lines) = <<>>

(***************************************************************************)
(* C4 amended. In describe mode the description lines on standard output   *)
(* are those of the run calls whose desc() returned, one line              *)
(* "<name>: <desc()>" each, in the order of the calls; no test is          *)
(* instantiated or invoked, nothing is written to the diagnostic stream    *)
(* and no SUCCESS, FAIL or ERROR line is printed.                          *)
(***************************************************************************)
C4_DescriptionPerReturnedDesc ==
  DescribeMode =>
    LET described ==
          SelectSeq(trace, LAMBDA e : e.ev = "desc" /\ e.val = "ok")
        printed == DescriptionLines(cout.lines)
    IN /\ Len(printed) = Len(described)
       /\ \A k \in 1..Len(described) :
            IsDescriptionLine(printed[k], described[k].name)
       /\ \A i \in RunIdx : \E j \in Seg(i) : trace[j].ev = "desc"
       /\ \A k \in DOMAIN trace : trace[k].ev \notin {"ctor", "invoke", "cerr"}
       /\ cerr = EmptyStream
       /\ TerminalLines(cout.lines) = <<>>

\* --desc, run calls B, A, B with a desc() that returns
C4_Witness ==
  /\ DescribeMode
  /\ nruns = 3
  /\ cout.lines = <<"B: d1", "", "A: d1", "", "B: d1", "">>

(***************************************************************************)
(* C5. Every executed test yields exactly one terminal outcome line on     *)
(* standard output, decided by operator(): "<name> SUCCESS" when it        *)
(* returns true, "<name> FAIL" when it returns false,                      *)
(* "ERROR for <name> '<what>'" when it throws.                             *)
(* Violated by the std::terminate of C1: a test that throws a value not    *)
(* derived from std::exception is executed and yields no outcome line.     *)
(***************************************************************************)
C5_OneOutcomePerExecution ==
  \A i \in RunIdx :
    Executed(i) =>
      LET n == trace[i].name
          out == LinesOf(i, "cout")
      IN /\ Len(out) = 1
         /\ IsTerminalLine(out[1].val, n)
         /\ \A j \in Seg(i) :
              trace[j].ev = "invoke" =>
                /\ trace[j].val = "true" => out[1].val = n \o " SUCCESS"
                /\ trace[j].val = "false" => out[1].val = n \o " FAIL"
                /\ trace[j].val \in {"std", "other"} =>
                     \E m \in Msgs :
                       out[1].val = "ERROR for " \o n \o " '" \o m \o "'"

(***************************************************************************)
(* C6. When a mandatory option is missing, the constructor prints the one  *)
(* line "EXCEPTION '<what>'" on standard output and the Runner stays idle: *)
(* both modes are false and, whatever --exec or --desc said, no later run  *)
(* call instantiates, describes or invokes a test or writes anything.      *)
(***************************************************************************)
MandatoryMissing ==
  /\ trace # <<>>
  /\ trace[1] = Ev("throw", "parse", "mandatory option missing")

C6_MissingMandatoryIdle ==
  (Constructed /\ MandatoryMissing) =>
    /\ cout = [lines |-> <<"EXCEPTION 'mandatory option missing'">>, part |-> ""]
    /\ cerr = EmptyStream
    /\ ~m_execute_tests
    /\ ~m_print_desc
    /\ \A k \in DOMAIN trace : trace[k].ev \notin {"ctor", "desc", "invoke"}
    /\ \A i \in RunIdx : EndOf(i) = i + 1 /\ Returned(i)

\* --exec { A } given, a mandatory option missing, three run calls made
C6_Witness ==
  /\ MandatoryMissing
  /\ m_argv.exec_set.has
  /\ m_argv.exec_set.val = <<"A">>
  /\ nruns = 3
  /\ Calls[1].name = "A"

(***************************************************************************)
(* C7. Whenever an exception is raised in the constructor's guarded block  *)
(* (parse, get_bool_param, get_set_param, or the copy of the names into    *)
(* the selection set), it is reported on standard output and both modes    *)
(* are false, so that no later run call executes or describes a test.      *)
(* Violated: m_execute_tests is set (tester.h:113) before the names are    *)
(* copied (tester.h:114-116); an exception of the copy leaves it true.     *)
(***************************************************************************)
CtorThrew == trace # <<>> /\ trace[1].ev = "throw"

C7_ExceptionLeavesIdle ==
  (Constructed /\ CtorThrew) =>
    /\ cout.lines # <<>>
    /\ cout.lines[1] = "EXCEPTION '" \o trace[1].val \o "'"
    /\ ~m_execute_tests
    /\ ~m_print_desc
    /\ \A k \in DOMAIN trace : trace[k].ev \notin {"ctor", "desc", "invoke"}

(***************************************************************************)
(* C8. When the constructor's guarded block raises nothing, the mode is    *)
(* resolved in strict priority over the parsed flags: boolean --exec gives *)
(* Execute-All (no selection) whatever else is passed; else boolean --desc *)
(* gives Describe (no selection, even with a set-valued --exec); else a    *)
(* set-valued --exec { n1 n2 ... } gives execute mode with exactly those   *)
(* names selected; else both modes are false.                              *)
(***************************************************************************)
C8_ModePriority ==
  (Constructed /\ ~CtorThrew) =>
    IF m_argv.exec_bool
    THEN m_execute_tests /\ ~m_print_desc /\ m_tests_to_exec = {}
    ELSE IF m_argv.desc_bool
    THEN m_print_desc /\ ~m_execute_tests /\ m_tests_to_exec = {}
    ELSE IF m_argv.exec_set.has
    THEN /\ m_execute_tests /\ ~m_print_desc
         /\ \A n \in Names :
              n \in m_tests_to_exec <=>
                \E k \in 1..Len(m_argv.exec_set.val) : m_argv.exec_set.val[k] = n
    ELSE ~m_execute_tests /\ ~m_print_desc /\ m_tests_to_exec = {}

\* --exec --desc --exec { A B }: boolean --exec wins
C8_Witness ==
  /\ Constructed
  /\ ~CtorThrew
  /\ m_argv.exec_bool /\ m_argv.desc_bool
  /\ m_argv.exec_set.val = <<"A", "B">>
  /\ m_execute_tests

(***************************************************************************)
(* C9. When parsing succeeds and no recognized flag is present, the        *)
(* constructor prints the usage banner on standard output, both modes stay *)
(* false and every later run call is a no-op: nothing is instantiated,     *)
(* described or invoked and nothing more is written to either stream.      *)
(***************************************************************************)
NoFlag ==
  /\ ~m_argv.exec_bool
  /\ ~m_argv.desc_bool
  /\ ~m_argv.exec_set.has

C9_NoFlagUsageThenNoOp ==
  (Constructed /\ ~CtorThrew /\ NoFlag) =>
    /\ Len(cout.lines) = 16
    /\ cout.lines[1] = "Syntax:"
    /\ cout.lines[2] = "\t'tst --desc' will display a description of the test"
    /\ cout.lines[3] = "\t'tst --exec' will execute the all the tests"
    /\ cout.lines[5] = "\t'tst' displays this message"
    /\ cout.lines[12] = "Output:"
    /\ cout.part = ""
    /\ cerr = EmptyStream
    /\ ~m_execute_tests
    /\ ~m_print_desc
    /\ \A k \in DOMAIN trace : trace[k].ev \notin {"ctor", "desc", "invoke", "cerr"}
    /\ \A i \in RunIdx : EndOf(i) = i + 1 /\ Returned(i)

\* no flag, three run calls made
C9_Witness ==
  /\ Constructed
  /\ ~CtorThrew
  /\ NoFlag
  /\ nruns = 3
  /\ cout.lines[1] = "Syntax:"

(***************************************************************************)
(* C10. The mode is fixed at construction: no run call, whatever its       *)
(* outcome, changes m_execute_tests, m_print_desc or m_tests_to_exec.      *)
(***************************************************************************)
C10_ModeFixed ==
  [][pc = "constructed" =>
       /\ m_execute_tests' = m_execute_tests
       /\ m_print_desc' = m_print_desc
       /\ m_tests_to_exec' = m_tests_to_exec]_vars

\* Execute-Selected with S = {A, B}: A ended in ERROR, B in SUCCESS, and S
\* is still {A, B}
C10_Witness ==
  /\ ExecuteSelected
  /\ m_tests_to_exec = {"A", "B"}
  /\ TerminalLines(cout.lines) = <<"ERROR for A 'boom'", "B SUCCESS">>

(***************************************************************************)
(* C11. An exception that leaves the body of run outside the execution     *)
(* step (desc() throwing in describe mode) is caught by run, reported on   *)
(* standard output as "EXCEPTION '<what>'" and swallowed: run returns to   *)
(* its caller, so that the remaining run calls are made.                   *)
(* Violated: run catches std::exception only and is noexcept; a desc()     *)
(* that throws any other value ends the process in std::terminate.         *)
(***************************************************************************)
DescThrewInRun(i) ==
  /\ ~Executed(i)
  /\ \E j \in Seg(i) : trace[j].ev = "desc" /\ trace[j].val \in {"std", "other"}

C11_RunSwallows ==
  \A i \in RunIdx :
    DescThrewInRun(i) =>
      /\ Returned(i)
      /\ \E j \in Seg(i), m \in Msgs :
           /\ trace[j].ev = "cout"
           /\ trace[j].val \in {"EXCEPTION '" \o m \o "'",
                                trace[i].name \o ": " \o "EXCEPTION '" \o m \o "'"}

(***************************************************************************)
(* C12. A selected name that no run call uses is silent, and never makes   *)
(* a test of another name run: while the selection set is not empty and no *)
(* run call made so far names one of its members, no test is instantiated, *)
(* described or invoked and the run calls write nothing to either stream   *)
(* (there is no fall back to running every test).                          *)
(***************************************************************************)
NoCallSelected == \A k \in 1..Len(Calls) : Calls[k].name \notin m_tests_to_exec

C12_UnmatchedSelectionSilent ==
  (ExecuteSelected /\ NoCallSelected) =>
    /\ \A k \in DOMAIN trace : InRun(k) => trace[k].ev \in {"run", "return"}
    /\ cerr = EmptyStream
    /\ cout.part = ""
    /\ Len(cout.lines) = Len(SelectSeq(trace, LAMBDA e : e.ev = "cout"))
    /\ TerminalLines(cout.lines) = <<>>
    /\ pc = "constructed"

\* --exec { B }, run calls A, A, A
C12_Witness ==
  /\ ExecuteSelected
  /\ ~CtorThrew
  /\ m_tests_to_exec = {"B"}
  /\ nruns = 3
  /\ \A k \in 1..Len(Calls) : Calls[k].name = "A"
  /\ cout = EmptyStream

(***************************************************************************)
(* C13. The streams are kept apart. The diagnostic stream holds nothing    *)
(* but the text of opening and closing banners, written inside a run call  *)
(* that executes a test; every SUCCESS, FAIL and ERROR line of an          *)
(* execution is a line of standard output, and standard output holds no    *)
(* banner. Standard output therefore reads the same with the diagnostic    *)
(* stream discarded.                                                       *)
(***************************************************************************)
IsBannerText(l) ==
  \/ l = ""
  \/ \E n \in Names :
       \/ \E d \in Descs : l = "############ -> " \o n \o " - " \o d
       \/ l = "############ <- " \o n
       \/ l = "############ -> " \o n \o " - " \o "############ <- " \o n

C13_StreamsApart ==
  /\ \A k \in 1..Len(cerr.lines) : IsBannerText(cerr.lines[k])
  /\ \/ cerr.part = ""
     \/ \E n \in Names : cerr.part = "############ -> " \o n \o " - "
  /\ LET runs == RunIdx
     IN /\ \A k \in DOMAIN trace :
             (\A i \in runs : k < i) => trace[k].ev # "cerr"
        /\ \A i \in runs :
             LET seg == SubSeq(trace, i, EndOf(i))
                 executed == \E j \in 1..Len(seg) : seg[j].ev = "ctor"
                 out == SelectSeq(seg, LAMBDA e : e.ev = "cout")
             IN /\ ~executed => \A j \in 1..Len(seg) : seg[j].ev # "cerr"
                /\ (executed /\ seg[Len(seg)].ev = "return") =>
                     /\ Len(out) = 1
                     /\ IsTerminalLine(out[1].val, trace[i].name)
        /\ Len(TerminalLines(cout.lines)) =
             Cardinality({i \in runs :
                            /\ trace[i + 1].ev = "ctor"
                            /\ trace[EndOf(i)].ev = "return"})
  /\ \A k \in 1..Len(cout.lines) :
       cout.lines[k] = "" \/ ~IsBannerText(cout.lines[k])

\* --exec: A succeeds, B fails, A throws a std::exception
C13_Witness ==
  /\ ExecuteAll
  /\ TerminalLines(cout.lines) = <<"A SUCCESS", "B FAIL", "ERROR for A 'boom'">>
  /\ Len(cerr.lines) = 9

(***************************************************************************)
(* C14. As the comment of run and the usage banner document: a test that   *)
(* passes prints "SUCCESS for <name>", a test that does not pass prints    *)
(* "FAIL for <name>", an error while executing the test prints             *)
(* "ERROR for <name> <desc>".                                              *)
(* Violated: exec prints "<name> SUCCESS" and "<name> FAIL"                *)
(* (tester.h:203), and "ERROR for <name> '<what>'" (tester.h:205).         *)
(***************************************************************************)
C14_DocumentedMessages ==
  \A i \in RunIdx :
    \A j \in Seg(i) :
      (trace[j].ev = "invoke" /\ Returned(i)) =>
        LET n == trace[i].name
            out == LinesOf(i, "cout")
        IN /\ Len(out) = 1
           /\ trace[j].val = "true" => out[1].val = "SUCCESS for " \o n
           /\ trace[j].val = "false" => out[1].val = "FAIL for " \o n
           /\ trace[j].val = "std" =>
                \E d \in Descs : out[1].val = "ERROR for " \o n \o " " \o d

(***************************************************************************)
(* C15. Executions are independent: the one outcome line of an execution   *)
(* that completes is decided by its own name and by what its own instance  *)
(* did, whatever the executions before it did and printed. The same test   *)
(* class run under two names therefore gives two outcome lines, each that  *)
(* of its own invocation.                                                  *)
(***************************************************************************)
Completed(i) == Executed(i) /\ Returned(i)

\* the events of run call i
Events(i) == SubSeq(trace, i, EndOf(i))

\* what operator() did in the events seg of a run call, "-" when it was not
\* called
Invocation(seg) ==
  LET calls == SelectSeq(seg, LAMBDA e : e.ev = "invoke")
  IN IF calls # <<>> THEN calls[1].val ELSE "-"

IsOwnOutcome(n, seg, l) ==
  LET did == Invocation(seg)
  IN IF did = "true" THEN l = n \o " SUCCESS"
     ELSE IF did = "false" THEN l = n \o " FAIL"
     ELSE \E m \in Msgs : l = "ERROR for " \o n \o " '" \o m \o "'"

C15_IndependentExecutions ==
  \A i \in RunIdx :
    LET seg == Events(i)
        out == SelectSeq(seg, LAMBDA e : e.ev = "cout")
    IN (seg[2].ev = "ctor" /\ seg[Len(seg)].ev = "return") =>
         /\ Len(out) = 1
         /\ IsOwnOutcome(trace[i].name, seg, out[1].val)

\* a FAIL under the name A, then the same class passing under the names B
\* and A
C15_Witness ==
  /\ ExecuteAll
  /\ Len(Calls) = 3
  /\ TerminalLines(cout.lines) = <<"A FAIL", "B SUCCESS", "A SUCCESS">>

IsOpening(l, n) == \E d \in Descs : l = "############ -> " \o n \o " - " \o d

IsClosing(l, n) == l = "############ <- " \o n

C17_BannersBalanced ==
  \A k \in 1..Len(cerr.lines) :
    /\ \/ cerr.lines[k] = ""
       \/ \E n \in Names : IsOpening(cerr.lines[k], n) \/ IsClosing(cerr.lines[k], n)
    /\ \A n \in Names :
         IsClosing(cerr.lines[k], n) =>
           k > 1 /\ IsOpening(cerr.lines[k - 1], n)

(***************************************************************************)
(* C18. The two modes exclude each other: in every state, after a          *)
(* construction that did or did not raise an exception and after any run   *)
(* calls, m_execute_tests and m_print_desc are not both true, and          *)
(* m_tests_to_exec is not empty only when m_execute_tests is true and      *)
(* m_print_desc is false.                                                  *)
(***************************************************************************)
C18_ModesExclusive ==
  /\ ~(m_execute_tests /\ m_print_desc)
  /\ m_tests_to_exec # {} => (m_execute_tests /\ ~m_print_desc)

\* --exec { A B } whose copy raised after the first name, then three run calls
C18_Witness ==
  /\ Constructed
  /\ CtorThrew
  /\ m_tests_to_exec = {"A"}
  /\ m_execute_tests
  /\ nruns = 3

=============================================================================
